---- MODULE Spec2Model ----
(***************************************************************************)
(* State-machine model of steam-locater (src/src/main.rs): discovery of    *)
(* the game list, terminal setup, the render/poll/dispatch event loop and  *)
(* the App list/search state, and terminal teardown.                       *)
(*                                                                         *)
(* Strings are sequences of one-character strings.  Option<usize> is a     *)
(* sequence of length 0 (None) or 1 (Some(i)); indices are 0-based as in   *)
(* the source.  Game.app_id and Game.path are not state of the model: the  *)
(* id is only formatted into paths and labels, and whether the path exists *)
(* is asked of the file system when the folder is opened.                  *)
(***************************************************************************)
EXTENDS Integers, Sequences, FiniteSets, TLC

\* ---------------------------------------------------------------- bounds
MaxItems == 3      \* most games discovery pushes into items
MaxScan  == 4      \* most library folders / apps / shortcuts discovery reads
MaxQuery == 2      \* longest search_query typed
MaxWalk  == 2      \* how far the selection is followed outside a list

\* usize: the width is scaled down so that the wrap-around of `len - 1`
\* stays inside the checker's integers; only the wrap itself matters.
UsizeBits == 16
UsizeMax  == 2^UsizeBits - 1

\* ------------------------------------------------------------ input sets
KeyChars == {"a", "B", "q", "/"}
Names    == { <<"A">>, <<"a", "b">> }

None    == << >>
Some(i) == << i >>

\* ------------------------------------------------------- string helpers
ToLowerChar(c) ==
    CASE c = "A" -> "a"
      [] c = "B" -> "b"
      [] c = "Q" -> "q"
      [] OTHER   -> c

to_lowercase(s) == [k \in 1..Len(s) |-> ToLowerChar(s[k])]

contains(h, n) ==
    \E k \in 0..(Len(h) - Len(n)) : SubSeq(h, k + 1, k + Len(n)) = n

Game(n, ns) == [name |-> n, is_non_steam |-> ns]

\* ---------------------------------------------------------------- state
VARIABLES
    pc,              \* position in main (or "unit": App driven directly)
    items,           \* main's items, then App.items
    filtered_items,  \* App.filtered_items
    search_query,    \* App.search_query
    in_search_mode,  \* App.in_search_mode
    status_message,  \* App.status_message
    selected,        \* App.state.selected()
    raw_mode,        \* terminal is in raw mode
    alt_screen,      \* terminal is on the alternate screen
    scanned,         \* entries read so far by the discovery loops
    result,          \* "none" while running, then "ok" / "err" / "panic"
    printed,         \* "No games found." was printed
    raw_acquired,    \* history: enable_raw_mode() has succeeded
    loop_entered,    \* history: the event loop has been entered
    discovery_failed,\* history: a discovery call has returned an Err
    last             \* history: the last App operation and the state before it

appvars == <<filtered_items, search_query, in_search_mode, status_message, selected>>
termvars == <<raw_mode, alt_screen, raw_acquired>>
vars == <<pc, items, filtered_items, search_query, in_search_mode,
          status_message, selected, raw_mode, alt_screen, scanned, result,
          printed, raw_acquired, loop_entered, discovery_failed, last>>

StatusInitial  == "Use '/' to search, 'q' to exit."
StatusPrefix   == "Opened prefix folder."
StatusGame     == "Opened game folder."
StatusNotFound == "Folder does not exist."

AppRec == [filtered_items |-> filtered_items, search_query |-> search_query,
           in_search_mode |-> in_search_mode, status_message |-> status_message,
           selected |-> selected]

NoKey == [code |-> "None", c |-> ""]
Key(code) == [code |-> code, c |-> ""]
CharKey(c) == [code |-> "Char", c |-> c]


\* the record kept in `last`
Did(op, key, spawned, spawn_ok, exists) ==
    [op |-> op, key |-> key, pre |-> AppRec, spawned |-> spawned,
     spawn_ok |-> spawn_ok, exists |-> exists]

NoOp ==
    [op |-> "none", key |-> NoKey,
     pre |-> [filtered_items |-> << >>, search_query |-> << >>,
              in_search_mode |-> FALSE, status_message |-> "",
              selected |-> None],
     spawned |-> FALSE, spawn_ok |-> FALSE, exists |-> FALSE]

\* ------------------------------------------------------------------ App
\* variant: the query is compared as typed, only the name is lowercased
FilterItems_query_as_typed(its, q) ==
    SelectSeq(its, LAMBDA g : contains(to_lowercase(g.name), q))

\* App::update_filter, the filter expression
FilterItems(its, q) ==
    SelectSeq(its, LAMBDA g : contains(to_lowercase(g.name), to_lowercase(q)))

\* variant: the selection is left as it was
RepairSelected_kept(sel, n) == sel

\* variant: an out-of-range selection is clamped to the last row
RepairSelected_clamp(sel, n) ==
    IF sel # None /\ sel[1] >= n
    THEN (IF n = 0 THEN None ELSE Some(n - 1))
    ELSE sel

\* variant: a missing selection is put on the first row of a non-empty list
RepairSelected_reselect(sel, n) ==
    IF sel = None
    THEN (IF n = 0 THEN None ELSE Some(0))
    ELSE IF sel[1] >= n
         THEN (IF n = 0 THEN None ELSE Some(0))
         ELSE sel

\* App::update_filter, "Reset selection if out of bounds"
RepairSelected(sel, n) ==
    IF sel # None /\ sel[1] >= n
    THEN (IF n = 0 THEN None ELSE Some(0))
    ELSE sel

\* variant: the bounds test uses the length the list had before the rebuild
update_filter_stale_len ==
    /\ filtered_items' = FilterItems(items, search_query')
    /\ selected' = RepairSelected(selected, Len(filtered_items))

\* App::update_filter; reads the query as the caller has just left it
update_filter ==
    /\ filtered_items' = FilterItems(items, search_query')
    /\ selected' = RepairSelected(selected, Len(filtered_items'))

\* variant: entering the search also moves the selection to the first row
enter_search_mode_resets_selection ==
    /\ in_search_mode' = TRUE
    /\ selected' = Some(0)
    /\ UNCHANGED <<filtered_items, search_query, status_message>>

enter_search_mode ==
    /\ in_search_mode' = TRUE
    /\ UNCHANGED <<filtered_items, search_query, status_message, selected>>

\* variant: the query is cleared but the list is not filtered again
exit_search_mode_keeps_list ==
    /\ in_search_mode' = FALSE
    /\ search_query' = << >>
    /\ UNCHANGED <<filtered_items, selected, status_message>>

\* variant: the mode is left but the query is kept
exit_search_mode_keeps_query ==
    /\ in_search_mode' = FALSE
    /\ search_query' = search_query
    /\ update_filter
    /\ UNCHANGED status_message

exit_search_mode ==
    /\ in_search_mode' = FALSE
    /\ search_query' = << >>
    /\ update_filter
    /\ UNCHANGED status_message

\* `app.search_query.pop(); app.update_filter();`
pop_and_filter ==
    /\ search_query' = IF search_query = << >> THEN << >>
                       ELSE SubSeq(search_query, 1, Len(search_query) - 1)
    /\ update_filter
    /\ UNCHANGED <<in_search_mode, status_message>>

\* `app.search_query.push(c); app.update_filter();`
push_and_filter(c) ==
    /\ search_query' = Append(search_query, c)
    /\ update_filter
    /\ UNCHANGED <<in_search_mode, status_message>>

\* `len - 1` on usize: with len = 0 a build with overflow checks panics and
\* a build without them wraps to usize::MAX
Panic == -1
LenMinus1(len) == IF len = 0 THEN {Panic, UsizeMax} ELSE {len - 1}

\* App::next, the index computed (the set of outcomes over the builds)
next_index(sel, len) ==
    IF sel = None THEN {0}
    ELSE { IF m = Panic THEN Panic
           ELSE IF sel[1] >= m THEN 0 ELSE sel[1] + 1 : m \in LenMinus1(len) }

\* variant: row 0 stays on row 0
previous_index_saturating(sel, len) ==
    IF sel = None THEN {0}
    ELSE IF sel[1] = 0 THEN {0}
    ELSE {sel[1] - 1}

\* App::previous, the index computed
previous_index(sel, len) ==
    IF sel = None THEN {0}
    ELSE IF sel[1] = 0 THEN LenMinus1(len)
    ELSE {sel[1] - 1}

\* `self.state.select(Some(i))` at the end of next / previous
select_index(i) ==
    /\ selected' = Some(i)
    /\ UNCHANGED <<filtered_items, search_query, in_search_mode, status_message>>

\* App::open_selected: `&self.filtered_items[i]` panics out of range
open_panics == selected # None /\ selected[1] >= Len(filtered_items)

\* variant: one success message for both kinds of item
open_status_one_label(game, exists) ==
    IF exists THEN StatusGame ELSE StatusNotFound

open_status(game, exists) ==
    IF exists
    THEN (IF game.is_non_steam THEN StatusPrefix ELSE StatusGame)
    ELSE StatusNotFound

open_selected(exists) ==
    /\ status_message' = IF selected = None THEN status_message
                         ELSE open_status(filtered_items[selected[1] + 1], exists)
    /\ UNCHANGED <<filtered_items, search_query, in_search_mode, selected>>

\* variant: xdg-open is spawned without asking whether the path exists
open_spawns_unchecked(exists) == selected # None

\* xdg-open is spawned exactly when an item is selected and its path exists
open_spawns(exists) == selected # None /\ exists

\* ----------------------------------------------------------------- main
Init ==
    /\ pc = "locate"
    /\ items = << >>
    /\ filtered_items = << >>
    /\ search_query = << >>
    /\ in_search_mode = FALSE
    /\ status_message = ""
    /\ selected = None
    /\ raw_mode = FALSE
    /\ alt_screen = FALSE
    /\ scanned = 0
    /\ result = "none"
    /\ printed = FALSE
    /\ raw_acquired = FALSE
    /\ loop_entered = FALSE
    /\ discovery_failed = FALSE
    /\ last = NoOp

\* what every step of main outside the App leaves alone
Frame == UNCHANGED <<appvars, last>>

\* `?` on an Err, or `return Ok(())`: main returns
Return(r) ==
    /\ pc' = "exited"
    /\ result' = r

Goto(l) ==
    /\ pc' = l
    /\ UNCHANGED result

\* a `?` that propagates during discovery
DiscoveryErr ==
    /\ Return("err")
    /\ discovery_failed' = TRUE
    /\ UNCHANGED <<items, scanned, printed, termvars, loop_entered>>
    /\ Frame

DiscoveryGoto(l) ==
    /\ Goto(l)
    /\ UNCHANGED <<items, scanned, printed, termvars, loop_entered, discovery_failed>>
    /\ Frame

\* `SteamDir::locate()?`
LocateOk  == pc = "locate" /\ DiscoveryGoto("compat")
LocateErr == pc = "locate" /\ DiscoveryErr

\* `steam_dir.compat_tool_mapping()?`
CompatOk  == pc = "compat" /\ DiscoveryGoto("libraries")
CompatErr == pc = "compat" /\ DiscoveryErr

\* `if let Ok(libraries_iter) = steam_dir.libraries()`: an Err skips the block
LibrariesOk  == pc = "libraries" /\ DiscoveryGoto("folder")
LibrariesErr ==
    /\ pc = "libraries"
    /\ Goto("shortcuts")
    /\ discovery_failed' = TRUE
    /\ UNCHANGED <<items, scanned, printed, termvars, loop_entered>>
    /\ Frame

\* one entry read by a discovery loop
Scan(l, its) ==
    /\ scanned < MaxScan
    /\ scanned' = scanned + 1
    /\ items' = its
    /\ Goto(l)
    /\ UNCHANGED <<printed, termvars, loop_entered, discovery_failed>>
    /\ Frame

\* `for folder in libraries_iter { let folder = folder?; ...`
FolderOk    == pc = "folder" /\ Scan("apps", items)
FolderErr   == pc = "folder" /\ DiscoveryErr
FoldersDone == pc = "folder" /\ DiscoveryGoto("shortcuts")

\* `for app_result in folder.apps() { let app = app_result?; ... push`
AppPush(n) ==
    /\ pc = "apps"
    /\ Len(items) < MaxItems
    /\ Scan("apps", Append(items, Game(n, FALSE)))
AppNoName == pc = "apps" /\ Scan("apps", items)
AppErr    == pc = "apps" /\ DiscoveryErr
AppsDone  == pc = "apps" /\ DiscoveryGoto("folder")

\* `for shortcut in steam_dir.shortcuts()? { let shortcut = shortcut?; ...`
ShortcutsOk  == pc = "shortcuts" /\ DiscoveryGoto("shortcut")
ShortcutsErr == pc = "shortcuts" /\ DiscoveryErr
ShortcutPush(n) ==
    /\ pc = "shortcut"
    /\ Len(items) < MaxItems
    /\ Scan("shortcut", Append(items, Game(n, TRUE)))
ShortcutSkip == pc = "shortcut" /\ Scan("shortcut", items)
ShortcutErr  == pc = "shortcut" /\ DiscoveryErr
ShortcutsDone ==
    /\ pc = "shortcut"
    /\ Goto("check_empty")
    /\ scanned' = 0
    /\ UNCHANGED <<items, printed, termvars, loop_entered, discovery_failed>>
    /\ Frame

\* variant: the list is not tested for emptiness
CheckEmpty_missing ==
    /\ pc = "check_empty"
    /\ Goto("enable_raw")
    /\ UNCHANGED <<items, scanned, printed, termvars, loop_entered, discovery_failed>>
    /\ Frame

\* `if items.is_empty() { println!("No games found."); return Ok(()); }`
CheckEmpty ==
    /\ pc = "check_empty"
    /\ IF items = << >>
       THEN printed' = TRUE /\ Return("ok")
       ELSE printed' = printed /\ Goto("enable_raw")
    /\ UNCHANGED <<items, scanned, termvars, loop_entered, discovery_failed>>
    /\ Frame

\* a `?` that propagates after discovery: nothing is undone on the way out
SetupErr ==
    /\ Return("err")
    /\ UNCHANGED <<items, scanned, printed, termvars, loop_entered, discovery_failed>>
    /\ Frame

\* `enable_raw_mode()?`
EnableRawOk ==
    /\ pc = "enable_raw"
    /\ raw_mode' = TRUE
    /\ raw_acquired' = TRUE
    /\ Goto("enter_alt")
    /\ UNCHANGED <<items, scanned, printed, alt_screen, loop_entered, discovery_failed>>
    /\ Frame
EnableRawErr == pc = "enable_raw" /\ SetupErr

\* `execute!(stdout, EnterAlternateScreen)?`
EnterAltOk ==
    /\ pc = "enter_alt"
    /\ alt_screen' = TRUE
    /\ Goto("new_terminal")
    /\ UNCHANGED <<items, scanned, printed, raw_mode, raw_acquired, loop_entered, discovery_failed>>
    /\ Frame
EnterAltErr == pc = "enter_alt" /\ SetupErr

\* `Terminal::new(backend)?`
NewTerminalOk == pc = "new_terminal" /\ DiscoveryGoto("app_new")
NewTerminalErr == pc = "new_terminal" /\ SetupErr

\* App::new(items) followed by `app.state.select(Some(0))`
AppNew ==
    /\ pc = "app_new"
    /\ filtered_items' = items
    /\ search_query' = << >>
    /\ in_search_mode' = FALSE
    /\ status_message' = StatusInitial
    /\ selected' = Some(0)
    /\ loop_entered' = TRUE
    /\ Goto("draw")
    /\ UNCHANGED <<items, scanned, printed, termvars, discovery_failed, last>>

\* ------------------------------------------------------------ event loop
LoopFrame == UNCHANGED <<items, scanned, printed, termvars, loop_entered, discovery_failed>>

\* `terminal.draw(...)?`: the closure only reads the App
DrawOk  == pc = "draw" /\ Goto("poll") /\ LoopFrame /\ Frame
DrawErr == pc = "draw" /\ SetupErr

\* `crossterm::event::poll(100ms)?`
PollReady   == pc = "poll" /\ Goto("read") /\ LoopFrame /\ Frame
PollTimeout == pc = "poll" /\ Goto("draw") /\ LoopFrame /\ Frame
PollErr     == pc = "poll" /\ SetupErr

\* `crossterm::event::read()?` returning an Err, or an event that is no Key
ReadErr    == pc = "read" /\ SetupErr
ReadNonKey == pc = "read" /\ Goto("draw") /\ LoopFrame /\ Frame

Keys ==
    {Key("Enter"), Key("Backspace"), Key("Down"), Key("Up"), Key("Esc")}
        \cup {CharKey(c) : c \in KeyChars}

\* a key was read and its match arm has run; the loop goes round
Handled(op, key, spawned, spawn_ok, exists) ==
    /\ last' = Did(op, key, spawned, spawn_ok, exists)
    /\ Goto("draw")
    /\ LoopFrame

\* a panic unwinds out of main: nothing restores the terminal
Panicked(op, key) ==
    /\ last' = Did(op, key, FALSE, FALSE, FALSE)
    /\ pc' = "exited"
    /\ result' = "panic"
    /\ UNCHANGED appvars
    /\ LoopFrame

\* Search mode: `KeyCode::Enter => app.exit_search_mode()`
SearchEnter ==
    /\ pc = "read" /\ in_search_mode
    /\ exit_search_mode
    /\ Handled("exit_search_mode", Key("Enter"), FALSE, FALSE, FALSE)

\* Search mode: `KeyCode::Backspace => { pop; update_filter }`
SearchBackspace ==
    /\ pc = "read" /\ in_search_mode
    /\ pop_and_filter
    /\ Handled("pop", Key("Backspace"), FALSE, FALSE, FALSE)

\* variant: `q` leaves the loop in Search mode too
SearchChar_q_quits(c) ==
    /\ pc = "read" /\ in_search_mode
    /\ Len(search_query) < MaxQuery
    /\ IF c = "q"
       THEN /\ last' = Did("quit", CharKey(c), FALSE, FALSE, FALSE)
            /\ Goto("disable_raw")
            /\ UNCHANGED appvars
            /\ LoopFrame
       ELSE /\ push_and_filter(c)
            /\ Handled("push", CharKey(c), FALSE, FALSE, FALSE)

\* Search mode: `KeyCode::Char(c) => { push(c); update_filter }`
SearchChar(c) ==
    /\ pc = "read" /\ in_search_mode
    /\ Len(search_query) < MaxQuery
    /\ push_and_filter(c)
    /\ Handled("push", CharKey(c), FALSE, FALSE, FALSE)

\* Search mode: `_ => {}`
SearchOther(k) ==
    /\ pc = "read" /\ in_search_mode
    /\ k.code \notin {"Enter", "Backspace", "Char"}
    /\ UNCHANGED appvars
    /\ Handled("ignored", k, FALSE, FALSE, FALSE)

\* variant: `q` leaves the loop only while a row is selected
NavQuit_when_selected ==
    /\ pc = "read" /\ ~in_search_mode
    /\ selected # None
    /\ last' = Did("quit", CharKey("q"), FALSE, FALSE, FALSE)
    /\ Goto("disable_raw")
    /\ UNCHANGED appvars
    /\ LoopFrame

\* Navigate mode: `KeyCode::Char('q') => break`
NavQuit ==
    /\ pc = "read" /\ ~in_search_mode
    /\ last' = Did("quit", CharKey("q"), FALSE, FALSE, FALSE)
    /\ Goto("disable_raw")
    /\ UNCHANGED appvars
    /\ LoopFrame

\* Navigate mode: `KeyCode::Char('/') => app.enter_search_mode()`
NavSlash ==
    /\ pc = "read" /\ ~in_search_mode
    /\ enter_search_mode
    /\ Handled("enter_search_mode", CharKey("/"), FALSE, FALSE, FALSE)

\* Navigate mode: `KeyCode::Down => app.next()`
NavDown ==
    /\ pc = "read" /\ ~in_search_mode
    /\ \E o \in next_index(selected, Len(filtered_items)) :
          IF o = Panic
          THEN Panicked("next", Key("Down"))
          ELSE /\ select_index(o)
               /\ Handled("next", Key("Down"), FALSE, FALSE, FALSE)

\* Navigate mode: `KeyCode::Up => app.previous()`
NavUp ==
    /\ pc = "read" /\ ~in_search_mode
    /\ \E o \in previous_index(selected, Len(filtered_items)) :
          IF o = Panic
          THEN Panicked("previous", Key("Up"))
          ELSE /\ select_index(o)
               /\ Handled("previous", Key("Up"), FALSE, FALSE, FALSE)

\* variant: a failed spawn of xdg-open is propagated out of main
NavEnter_spawn_propagated ==
    /\ pc = "read" /\ ~in_search_mode
    /\ IF open_panics
       THEN Panicked("open_selected", Key("Enter"))
       ELSE \E exists \in BOOLEAN, spawn_ok \in BOOLEAN :
              /\ (open_spawns(exists) \/ ~spawn_ok)
              /\ IF open_spawns(exists) /\ ~spawn_ok
                 THEN /\ last' = Did("open_selected", Key("Enter"), TRUE, FALSE, exists)
                      /\ Return("err")
                      /\ UNCHANGED appvars
                      /\ LoopFrame
                 ELSE /\ open_selected(exists)
                      /\ Handled("open_selected", Key("Enter"),
                                 open_spawns(exists), spawn_ok, exists)

\* Navigate mode: `KeyCode::Enter => app.open_selected()`; whether the path
\* exists and whether xdg-open could be spawned are the file system's answer
NavEnter ==
    /\ pc = "read" /\ ~in_search_mode
    /\ IF open_panics
       THEN Panicked("open_selected", Key("Enter"))
       ELSE \E exists \in BOOLEAN, spawn_ok \in BOOLEAN :
              /\ (open_spawns(exists) \/ ~spawn_ok)
              /\ open_selected(exists)
              /\ Handled("open_selected", Key("Enter"), open_spawns(exists),
                         spawn_ok, exists)

\* Navigate mode: `_ => {}`
NavOther(k) ==
    /\ pc = "read" /\ ~in_search_mode
    /\ k \notin {CharKey("q"), CharKey("/"), Key("Down"), Key("Up"), Key("Enter")}
    /\ UNCHANGED appvars
    /\ Handled("ignored", k, FALSE, FALSE, FALSE)

\* ------------------------------------------------------------- teardown
TeardownFrame == UNCHANGED <<items, scanned, printed, loop_entered, discovery_failed>>

\* `disable_raw_mode()?`
DisableRawOk ==
    /\ pc = "disable_raw"
    /\ raw_mode' = FALSE
    /\ Goto("leave_alt")
    /\ UNCHANGED <<alt_screen, raw_acquired>>
    /\ TeardownFrame /\ Frame
DisableRawErr == pc = "disable_raw" /\ SetupErr

\* `execute!(terminal.backend_mut(), LeaveAlternateScreen)?`
LeaveAltOk ==
    /\ pc = "leave_alt"
    /\ alt_screen' = FALSE
    /\ Goto("show_cursor")
    /\ UNCHANGED <<raw_mode, raw_acquired>>
    /\ TeardownFrame /\ Frame
LeaveAltErr == pc = "leave_alt" /\ SetupErr

\* `terminal.show_cursor()?; Ok(())`
ShowCursorOk ==
    /\ pc = "show_cursor"
    /\ Return("ok")
    /\ UNCHANGED termvars
    /\ TeardownFrame /\ Frame
ShowCursorErr == pc = "show_cursor" /\ SetupErr

Next ==
    \/ LocateOk \/ LocateErr \/ CompatOk \/ CompatErr
    \/ LibrariesOk \/ LibrariesErr
    \/ FolderOk \/ FolderErr \/ FoldersDone
    \/ \E n \in Names : AppPush(n)
    \/ AppNoName \/ AppErr \/ AppsDone
    \/ ShortcutsOk \/ ShortcutsErr
    \/ \E n \in Names : ShortcutPush(n)
    \/ ShortcutSkip \/ ShortcutErr \/ ShortcutsDone
    \/ CheckEmpty
    \/ EnableRawOk \/ EnableRawErr \/ EnterAltOk \/ EnterAltErr
    \/ NewTerminalOk \/ NewTerminalErr \/ AppNew
    \/ DrawOk \/ DrawErr \/ PollReady \/ PollTimeout \/ PollErr
    \/ ReadErr \/ ReadNonKey
    \/ SearchEnter \/ SearchBackspace
    \/ \E c \in KeyChars : SearchChar(c)
    \/ \E k \in Keys : SearchOther(k)
    \/ NavQuit \/ NavSlash \/ NavDown \/ NavUp \/ NavEnter
    \/ \E k \in Keys : NavOther(k)
    \/ DisableRawOk \/ DisableRawErr \/ LeaveAltOk \/ LeaveAltErr
    \/ ShowCursorOk \/ ShowCursorErr

Spec == Init /\ [][Next]_vars

\* ------------------------------------------------- the App driven directly
\* App as a component: App::new on any item list (the empty one included),
\* then its methods called as the two-mode state machine allows.
Games == {Game(n, ns) : n \in Names, ns \in BOOLEAN}

ItemLists == UNION {[1..k -> Games] : k \in 0..MaxItems}

InitUnit ==
    /\ pc = "unit"
    /\ items \in ItemLists
    /\ filtered_items = items
    /\ search_query = << >>
    /\ in_search_mode = FALSE
    /\ status_message = StatusInitial
    /\ selected = None
    /\ raw_mode = FALSE
    /\ alt_screen = FALSE
    /\ scanned = 0
    /\ result = "none"
    /\ printed = FALSE
    /\ raw_acquired = FALSE
    /\ loop_entered = FALSE
    /\ discovery_failed = FALSE
    /\ last = NoOp

UnitFrame == UNCHANGED <<items, scanned, printed, termvars, loop_entered, discovery_failed>>

\* the selection is followed at most MaxWalk steps outside a list
SelectedWithin ==
    IF selected = None THEN TRUE
    ELSE selected[1] <= Len(filtered_items) + MaxWalk
            \/ selected[1] >= UsizeMax - MaxWalk

UnitDone(op, spawned, spawn_ok, exists) ==
    /\ last' = Did(op, NoKey, spawned, spawn_ok, exists)
    /\ UNCHANGED <<pc, result>>
    /\ UnitFrame

UnitPanicked(op) ==
    /\ last' = Did(op, NoKey, FALSE, FALSE, FALSE)
    /\ pc' = "exited"
    /\ result' = "panic"
    /\ UNCHANGED appvars
    /\ UnitFrame

\* `app.state.select(Some(0))` as main does after App::new on its non-empty list
UnitSelectFirst ==
    /\ pc = "unit" /\ last.op = "none" /\ items # << >>
    /\ select_index(0)
    /\ UnitDone("select", FALSE, FALSE, FALSE)

UnitEnterSearch ==
    /\ pc = "unit" /\ ~in_search_mode
    /\ enter_search_mode
    /\ UnitDone("enter_search_mode", FALSE, FALSE, FALSE)

UnitExitSearch ==
    /\ pc = "unit" /\ in_search_mode
    /\ exit_search_mode
    /\ UnitDone("exit_search_mode", FALSE, FALSE, FALSE)

UnitPush(c) ==
    /\ pc = "unit" /\ in_search_mode
    /\ Len(search_query) < MaxQuery
    /\ push_and_filter(c)
    /\ UnitDone("push", FALSE, FALSE, FALSE)

UnitPop ==
    /\ pc = "unit" /\ in_search_mode
    /\ pop_and_filter
    /\ UnitDone("pop", FALSE, FALSE, FALSE)

\* App::update_filter called again, search_query as it is
UnitUpdateFilter ==
    /\ pc = "unit"
    /\ search_query' = search_query
    /\ update_filter
    /\ UNCHANGED <<in_search_mode, status_message>>
    /\ UnitDone("update_filter", FALSE, FALSE, FALSE)

UnitNext ==
    /\ pc = "unit" /\ ~in_search_mode /\ SelectedWithin
    /\ \E o \in next_index(selected, Len(filtered_items)) :
          IF o = Panic
          THEN UnitPanicked("next")
          ELSE select_index(o) /\ UnitDone("next", FALSE, FALSE, FALSE)

UnitPrevious ==
    /\ pc = "unit" /\ ~in_search_mode /\ SelectedWithin
    /\ \E o \in previous_index(selected, Len(filtered_items)) :
          IF o = Panic
          THEN UnitPanicked("previous")
          ELSE select_index(o) /\ UnitDone("previous", FALSE, FALSE, FALSE)

UnitOpen ==
    /\ pc = "unit" /\ ~in_search_mode
    /\ IF open_panics
       THEN UnitPanicked("open_selected")
       ELSE \E exists \in BOOLEAN, spawn_ok \in BOOLEAN :
              /\ (open_spawns(exists) \/ ~spawn_ok)
              /\ open_selected(exists)
              /\ UnitDone("open_selected", open_spawns(exists), spawn_ok, exists)

NextUnit ==
    \/ UnitSelectFirst \/ UnitEnterSearch \/ UnitExitSearch
    \/ \E c \in KeyChars : UnitPush(c)
    \/ UnitPop \/ UnitUpdateFilter \/ UnitNext \/ UnitPrevious \/ UnitOpen

SpecUnit == InitUnit /\ [][NextUnit]_vars

\* ------------------------------------------------------------ properties
InLoop == pc \in {"draw", "poll", "read"}

\* the index held by a Some selection
Idx(sel) == sel[1]

\* C1: in every state the event loop reaches, a selection Some(i) satisfies
\* 0 <= i < len(filtered_items).
C1_SelectedInRange ==
    loop_entered =>
        (selected # None =>
            Idx(selected) >= 0 /\ Idx(selected) < Len(filtered_items))

\* C1 witness: typing shrank the list below the selected row and the
\* selection was moved back inside it
C1_Witness ==
    /\ InLoop
    /\ last.op = "push"
    /\ last.pre.selected # None
    /\ selected # None
    /\ Idx(last.pre.selected) >= Len(filtered_items)
    /\ Idx(selected) < Len(filtered_items)

\* C2: in every state the event loop reaches, the selection is None only
\* when filtered_items is empty (so it is Some again once a filter that
\* matched nothing is shortened or cleared).
C2_NoneOnlyWhenEmpty ==
    loop_entered => (selected = None => filtered_items = << >>)

\* C3: case folding and sub-string matching, stated on characters
FoldPairs == { <<"A", "a">>, <<"B", "b">>, <<"Q", "q">> }

Fold(c) ==
    IF \E p \in FoldPairs : p[1] = c
    THEN (CHOOSE p \in FoldPairs : p[1] = c)[2]
    ELSE c

NameMatches(name, q) ==
    \E k \in 1..(Len(name) + 1) :
        /\ k + Len(q) - 1 <= Len(name)
        /\ \A j \in 1..Len(q) : Fold(name[k + j - 1]) = Fold(q[j])

RECURSIVE MatchingInOrder(_, _)
MatchingInOrder(its, q) ==
    IF its = << >> THEN << >>
    ELSE IF NameMatches(Head(its).name, q)
         THEN <<Head(its)>> \o MatchingInOrder(Tail(its), q)
         ELSE MatchingInOrder(Tail(its), q)

\* C3: in every state reached through typing, deleting and leaving the
\* search, filtered_items is exactly the items whose case-folded name
\* contains the case-folded search_query, in the order of items (the empty
\* query matches every item).
C3_VisibleIsFilter ==
    loop_entered => filtered_items = MatchingInOrder(items, search_query)

\* C3 witness: an upper-case letter was typed and it kept some, not all, of
\* the items
C3_Witness ==
    /\ InLoop
    /\ last.op = "push"
    /\ last.key = CharKey("B")
    /\ filtered_items # << >>
    /\ Len(filtered_items) < Len(items)

\* C4: once raw mode has been acquired, it is released on every path by
\* which the program exits (q, a setup error after acquisition, a render
\* error, an input error).
C4_RawModeReleasedOnExit ==
    (pc = "exited" /\ raw_acquired) => ~raw_mode

\* C5: the loop is left (other than by a propagated error) only by the key
\* `q` read in Navigate mode; every key in Search mode, `q` included, and
\* every other key in Navigate mode leaves the loop running.
C5_OnlyNavigateQEndsLoop ==
    (loop_entered /\ ~InLoop /\ result # "err") =>
        /\ last.op = "quit"
        /\ last.key = CharKey("q")
        /\ ~last.pre.in_search_mode

\* C5 witness: `q` was read in Search mode, was appended to the query and
\* the loop goes on
C5_Witness ==
    /\ pc = "draw"
    /\ last.key = CharKey("q")
    /\ last.pre.in_search_mode
    /\ in_search_mode
    /\ search_query = Append(last.pre.search_query, "q")

\* C6: when discovery ends with an empty item list, the program prints the
\* message and returns Ok without having acquired raw mode or entered the
\* loop, and it takes no step after that.
C6_EmptyCatalogExits ==
    [][ /\ (pc = "check_empty" /\ items = << >>) =>
            /\ printed'
            /\ pc' = "exited"
            /\ result' = "ok"
            /\ ~raw_mode' /\ ~raw_acquired' /\ ~alt_screen'
            /\ ~loop_entered'
        /\ ~printed ]_vars

\* C6 witness: the program has exited on the empty list
C6_Witness ==
    /\ pc = "exited"
    /\ printed
    /\ items = << >>
    /\ result = "ok"
    /\ ~raw_acquired

\* C7: after leaving the search, whatever was typed and deleted before,
\* in_search_mode is false, search_query is empty and filtered_items is the
\* whole item list.
C7_SearchRoundTrip ==
    last.op = "exit_search_mode" =>
        /\ ~in_search_mode
        /\ search_query = << >>
        /\ filtered_items = items

\* C7 witness: the search left had filtered some items out
C7_Witness ==
    /\ InLoop
    /\ last.op = "exit_search_mode"
    /\ last.pre.search_query # << >>
    /\ Len(last.pre.filtered_items) < Len(items)
    /\ filtered_items = items

\* C8: when the filter is recomputed with selection Some(i): if i is not
\* below the new length the selection becomes Some(0) for a non-empty list
\* and None for an empty one; otherwise it stays Some(i).
C8_CursorRepair ==
    (last.op \in {"push", "pop", "exit_search_mode"} /\ last.pre.selected # None) =>
        LET i == Idx(last.pre.selected)
            n == Len(filtered_items)
        IN  /\ (i >= n /\ n > 0) => selected = Some(0)
            /\ (i >= n /\ n = 0) => selected = None
            /\ (i < n) => selected = Some(i)

\* C8 witness: the list shrank to two or more rows, none of them the
\* selected one, and the selection went to row 0 rather than the last row
C8_Witness ==
    /\ InLoop
    /\ last.op = "push"
    /\ last.pre.selected # None
    /\ Len(filtered_items) >= 2
    /\ Idx(last.pre.selected) >= Len(filtered_items)
    /\ selected = Some(0)

\* C9: on a non-empty list of n rows, next takes Some(i) to Some((i+1) mod n)
\* and None to Some(0); previous takes Some(i) to Some((i-1) mod n) and None
\* to Some(0).
C9_Wraparound ==
    (last.op \in {"next", "previous"} /\ result # "panic"
        /\ last.pre.filtered_items # << >>) =>
        LET n == Len(last.pre.filtered_items)
            p == last.pre.selected
        IN  IF p = None THEN selected = Some(0)
            ELSE IF last.op = "next"
                 THEN selected = Some((Idx(p) + 1) % n)
                 ELSE selected = Some((Idx(p) + n - 1) % n)

\* C9 witness: previous on row 0 of a list of three went to row 2
C9_Witness ==
    /\ InLoop
    /\ last.op = "previous"
    /\ last.pre.selected = Some(0)
    /\ Len(filtered_items) = 3
    /\ selected = Some(2)

KeptButStatus ==
    /\ filtered_items = last.pre.filtered_items
    /\ selected = last.pre.selected
    /\ search_query = last.pre.search_query
    /\ in_search_mode = last.pre.in_search_mode

\* C11: opening a selected item whose path does not exist leaves
\* filtered_items, the selection, search_query and in_search_mode as they
\* were, sets the status to the not-found message and spawns nothing; a
\* process is spawned only when the selected item's path exists.
C11_OpenMissingPath ==
    last.op = "open_selected" =>
        /\ (last.pre.selected # None /\ ~last.exists) =>
              /\ status_message = StatusNotFound
              /\ KeptButStatus
              /\ ~last.spawned
        /\ last.spawned => (last.exists /\ last.pre.selected # None)

\* C11 witness: a selected item was opened, its path did not exist, and the
\* status changed to the not-found message
C11_Witness ==
    /\ InLoop
    /\ last.op = "open_selected"
    /\ last.pre.selected # None
    /\ ~last.exists
    /\ last.pre.status_message # StatusNotFound
    /\ status_message = StatusNotFound

\* the selected item with its is_non_steam flag inverted
Flipped(g) == [g EXCEPT !.is_non_steam = ~g.is_non_steam]

\* C12: after opening a selected item whose path exists, the status differs
\* from the one the same state would get were the item's is_non_steam flag
\* the other way round, and both differ from the not-found message.
C12_ProxiedVsDirect ==
    (last.op = "open_selected" /\ last.pre.selected # None /\ last.exists) =>
        LET g     == filtered_items[Idx(selected) + 1]
            other == IF Flipped(g).is_non_steam THEN StatusPrefix ELSE StatusGame
        IN  /\ status_message # other
            /\ status_message # StatusNotFound
            /\ other # StatusNotFound

\* C12 witness: a non-Steam item whose path exists was opened
C12_Witness ==
    /\ InLoop
    /\ last.op = "open_selected"
    /\ last.exists
    /\ last.pre.selected # None
    /\ filtered_items[Idx(selected) + 1].is_non_steam
    /\ status_message = StatusPrefix

\* the operations that end with a call of update_filter
FilterOps == {"push", "pop", "exit_search_mode", "update_filter"}

\* C13: when update_filter is called again after a call of it, search_query
\* not having changed in between, filtered_items is the same list and the
\* selection is as the first call left it.
C13_Idempotence ==
    [][ (last.op \in FilterOps /\ last'.op = "update_filter"
            /\ search_query' = search_query) =>
            (filtered_items' = filtered_items /\ selected' = selected) ]_vars

\* C13 witness: update_filter was called again with a query that keeps some
\* of the items, a row being selected
C13_Witness ==
    /\ pc = "unit"
    /\ last.op = "update_filter"
    /\ search_query # << >>
    /\ last.pre.search_query = search_query
    /\ selected # None
    /\ filtered_items # << >>
    /\ Len(filtered_items) < Len(items)

\* C14: every discovery failure (locating Steam, the compatibility-tool
\* mapping, enumerating the libraries, reading a library folder or an app,
\* reading the shortcuts) ends the program with the error: raw mode is never
\* entered and the loop is never started.
C14_DiscoveryFailureFatal ==
    discovery_failed =>
        /\ pc = "exited"
        /\ result = "err"
        /\ ~raw_acquired
        /\ ~loop_entered

\* C15: enter_search_mode sets in_search_mode and changes no other field.
C15_EnterSearchFrame ==
    last.op = "enter_search_mode" =>
        /\ in_search_mode
        /\ filtered_items = last.pre.filtered_items
        /\ search_query = last.pre.search_query
        /\ selected = last.pre.selected
        /\ status_message = last.pre.status_message

\* C15 witness: the search was entered with a row other than the first
\* selected and a status other than the initial one
C15_Witness ==
    /\ InLoop
    /\ last.op = "enter_search_mode"
    /\ ~last.pre.in_search_mode
    /\ in_search_mode
    /\ selected # None
    /\ Idx(selected) > 0
    /\ status_message # StatusInitial

\* C16: when the selected item's path exists and xdg-open cannot be spawned,
\* open_selected still sets the status to the success message of a spawn
\* that worked, leaves filtered_items, the selection, search_query and
\* in_search_mode alone, and the loop goes round.
C16_LaunchFailureIgnored ==
    [][ (last' # last /\ last'.op = "open_selected"
            /\ last'.spawned /\ ~last'.spawn_ok) =>
            /\ pc' = "draw"
            /\ result' = "none"
            /\ status_message' =
                  IF filtered_items[Idx(selected) + 1].is_non_steam
                  THEN StatusPrefix ELSE StatusGame
            /\ filtered_items' = filtered_items
            /\ selected' = selected
            /\ search_query' = search_query
            /\ in_search_mode' = in_search_mode ]_vars

\* C16 witness: xdg-open could not be spawned for a non-Steam item and the
\* status reads as if it had been
C16_Witness ==
    /\ pc = "draw"
    /\ last.op = "open_selected"
    /\ last.spawned
    /\ ~last.spawn_ok
    /\ last.pre.status_message # StatusPrefix
    /\ status_message = StatusPrefix

\* C17: in every state of the loop in Navigate mode search_query is empty
\* and filtered_items is the whole, non-empty item list; so next, previous
\* and open_selected, as the loop calls them, never run on an empty or a
\* filtered list.
C17_NavigateSeesWholeList ==
    loop_entered =>
        /\ ~in_search_mode =>
              /\ search_query = << >>
              /\ filtered_items = items
              /\ items # << >>
        /\ last.op \in {"next", "previous", "open_selected"} =>
              /\ last.pre.search_query = << >>
              /\ last.pre.filtered_items = items
              /\ last.pre.filtered_items # << >>

\* C17 witness: next ran in Navigate mode after a search that had matched
\* nothing (it found no selection) and the list is whole again
C17_Witness ==
    /\ InLoop
    /\ last.op = "next"
    /\ last.pre.selected = None
    /\ ~in_search_mode
    /\ filtered_items = items

\* C18: in the loop a selection that is None becomes Some only by next or
\* previous in Navigate mode; typing, deleting and leaving the search (every
\* call of update_filter) leave it None.
C18_NoneStaysNone ==
    [][ (loop_entered /\ selected = None /\ selected' # None) =>
            (last'.op \in {"next", "previous"} /\ ~in_search_mode) ]_vars

\* C18 witness: nothing was selected, a character was deleted, the list is
\* no longer empty and still nothing is selected
C18_Witness ==
    /\ InLoop
    /\ last.op = "pop"
    /\ last.pre.selected = None
    /\ last.pre.filtered_items = << >>
    /\ filtered_items # << >>
    /\ selected = None

\* C19: from every state of the loop the user can end it, render and input
\* errors aside: a draw can be followed by a poll and a read; a read in
\* Navigate mode can take `q` and leave the loop; a read in Search mode can
\* take Enter and be in Navigate mode.
C19_CanAlwaysQuit ==
    /\ pc = "draw" => ENABLED (Next /\ pc' = "poll")
    /\ pc = "poll" => ENABLED (Next /\ pc' = "read")
    /\ (pc = "read" /\ ~in_search_mode) =>
          ENABLED (Next /\ last'.key = CharKey("q") /\ pc' = "disable_raw")
    /\ (pc = "read" /\ in_search_mode) =>
          ENABLED (Next /\ last'.key = Key("Enter") /\ pc' = "draw"
                        /\ ~in_search_mode')

\* C19 witness: the program has ended on `q` after a search that had
\* matched nothing was left with Enter
C19_Witness ==
    /\ pc = "exited"
    /\ result = "ok"
    /\ last.op = "quit"
    /\ last.pre.selected = None
====
